---- MODULE Spec2Model ----
(***************************************************************************)
(* A model of the agent scripts of langchain-training.  Each script builds *)
(* an agent (model + tools + middleware + state/context schema, with or    *)
(* without a checkpointer) and invokes it.  The tools, the middleware and  *)
(* the agents' configurations are translated from the scripts; the agent   *)
(* loop they run in (message merge, checkpointing, interrupt and resume)   *)
(* belongs to the framework and is modelled from its contract.             *)
(*                                                                         *)
(* One specification per script:                                           *)
(*   SpecModels  module3/dynamic_models.py                                 *)
(*   SpecEmail   module3/email_agent.py                                    *)
(*   SpecEmailDemo  module3/email_agent.py, run_example                    *)
(*   SpecHitl    module3/hitl.py                                           *)
(*   SpecMemory  module1/memory.py                                         *)
(*   SpecRoles   module3/dynamic_tools.py                                  *)
(*   SpecTrim    module3/managing_messages.py                              *)
(*   SpecState   module2/state.py                                          *)
(*   SpecContext module2/runtime_context.py                                *)
(*   SpecPrompts module3/dynamic_prompts.py                                *)
(*   SpecErrors  the tools that wrap an external call                      *)
(*   SpecMcp     module2/mcp.py                                            *)
(***************************************************************************)
EXTENDS Integers, Sequences, FiniteSets, TLC

VARIABLES
    pc,           \* where the run is: "idle", "model", "tools", "interrupted", "done", "error"
    messages,     \* the "messages" channel of the running graph state
    custom,       \* the other state channels (authenticated, email, favourite_colour), key -> value
    checkpoints,  \* the checkpointer: thread id -> saved state
    thread,       \* the thread id of the current invocation
    context,      \* runtime.context of the current invocation
    offered,      \* the tools of the request handed to the model at the last model call
    calls,        \* the tool calls of the last AI message still to be executed
    invocation,   \* how many invocations the script has started
    nextId,       \* the next fresh message id (ids are fresh within the state they join)
    modelCalls,   \* the model calls made so far in the current invocation
    agent,        \* the configuration create_agent was given
    last,         \* the last operation performed, with its arguments and result
    log           \* what is kept for the properties: the tool calls executed, the responses returned

vars == <<pc, messages, custom, checkpoints, thread, context, offered, calls,
          invocation, nextId, modelCalls, agent, last, log>>

----------------------------------------------------------------------------
(* Bounds of the model *)

\* the largest message_count and threshold select_model_by_message_count is tried on
MaxCount == 12
\* the most agent.invoke calls one run makes
MaxInvocations == 3
\* the most model calls within one invocation
MaxModelCalls == 2
\* the most tool calls the model puts in one AI message
MaxCalls == 2
\* the most model calls the whole of hitl.py makes (its four invocations together)
MaxHitlModelCalls == 3
\* the longest message list an invocation of the trimming agent is given, beside the
\* script's own, and the most invocations it gets
MaxInput == 2
MaxTrimInvocations == 2
\* the number of different answers the model of memory.py may give to a question
MaxAnswers == 9
\* the most model calls of one demo of state.py that ask for tools
MaxToolRounds == 2

----------------------------------------------------------------------------
(* Values *)

None == "None"
NoValue == [k \in {} |-> None]
\* runtime.context when invoke is given no context (a record, as every context is)
NoContext == [none |-> TRUE]

\* dict.get(key, default)
Get(d, k, default) == IF k \in DOMAIN d THEN d[k] ELSE default

\* d | upd
Merge(d, upd) == [k \in DOMAIN d \cup DOMAIN upd |-> IF k \in DOMAIN upd THEN upd[k] ELSE d[k]]

\* A message; id 0 is "no id yet" (id=None), name is the tool a ToolMessage answers.
HumanMessage(content) ==
    [type |-> "human", id |-> 0, content |-> content, tool_calls |-> <<>>, name |-> ""]
AIMessage(content, tool_calls) ==
    [type |-> "ai", id |-> 0, content |-> content, tool_calls |-> tool_calls, name |-> ""]
ToolMessage(content, name) ==
    [type |-> "tool", id |-> 0, content |-> content, tool_calls |-> <<>>, name |-> name]
RemoveMessage(id) ==
    [type |-> "remove", id |-> id, content |-> "", tool_calls |-> <<>>, name |-> ""]

ToolCall(name, args) == [name |-> name, args |-> args]

Max(S) == CHOOSE x \in S : \A y \in S : y <= x

----------------------------------------------------------------------------
(* The framework's message channel *)

\* add_messages gives every message of an update that has no id a fresh one
AssignIds(right, n) ==
    [i \in 1..Len(right) |->
        IF right[i].id = 0 THEN [right[i] EXCEPT !.id = n + i - 1] ELSE right[i]]

\* the merge loop of add_messages: a message whose id is known replaces the one it
\* names (a RemoveMessage marks it for removal), any other message is appended
RECURSIVE MergeMessages(_, _, _)
MergeMessages(merged, ids_to_remove, right) ==
    IF right = <<>>
    THEN SelectSeq(merged, LAMBDA m : m.id \notin ids_to_remove)
    ELSE LET m == Head(right)
             existing == {i \in 1..Len(merged) : merged[i].id = m.id}
         IN  IF existing # {}
             THEN IF m.type = "remove"
                  THEN MergeMessages(merged, ids_to_remove \cup {m.id}, Tail(right))
                  ELSE MergeMessages([merged EXCEPT ![Max(existing)] = m],
                                     ids_to_remove \ {m.id}, Tail(right))
             ELSE IF m.type = "remove"
                  THEN "ValueError"
                  ELSE MergeMessages(Append(merged, m), ids_to_remove, Tail(right))

\* the reducer of the messages channel; n is the next fresh id
add_messages(left, right, n) == MergeMessages(left, {}, AssignIds(right, n))

----------------------------------------------------------------------------
(* The framework's model and tools nodes *)

SeqsUpTo(S, n) == UNION {[1..k -> S] : k \in 0..n}

\* what the model may answer when the request offers the tool calls of `options`:
\* the tool calls of its AI message, none for a final answer
ModelResponses(options) == SeqsUpTo(options, MaxCalls)

\* whether the tool calls cs hold a call of the tool `name`
Calls(cs, name) == \E i \in 1..Len(cs) : cs[i].name = name

\* what a tool that returns a string gives the graph: one ToolMessage, no state update
ToolOutput(content, name) == [update |-> NoValue, messages |-> <<ToolMessage(content, name)>>]
\* what a tool that returns Command(update=...) gives the graph
ToolCommand(update, msgs) == [update |-> update, messages |-> msgs]

\* the tool calls of one AI message run in one step; results[i] answers the i-th call
Writers(results, k) == {i \in 1..Len(results) : k \in DOMAIN results[i].update}
WrittenKeys(results) == UNION {DOMAIN results[i].update : i \in 1..Len(results)}
\* a channel without a reducer takes one value per step (InvalidUpdateError otherwise)
InvalidUpdate(results) == \E k \in WrittenKeys(results) : Cardinality(Writers(results, k)) > 1
StateUpdate(results) ==
    [k \in WrittenKeys(results) |-> results[CHOOSE i \in Writers(results, k) : TRUE].update[k]]
RECURSIVE ToolMessages(_)
ToolMessages(results) ==
    IF results = <<>> THEN <<>> ELSE Head(results).messages \o ToolMessages(Tail(results))

\* HumanInTheLoopMiddleware(interrupt_on=...): the tools whose calls wait for a decision
InterruptOn(interrupt_on) == {t \in DOMAIN interrupt_on : interrupt_on[t] = TRUE}
\* after_model of the middleware: the calls of the AI message that need a decision
InterruptCalls(cs, interrupt_on) ==
    SelectSeq(cs, LAMBDA c : c.name \in InterruptOn(interrupt_on))

\* the decisions of a resume, applied by after_model to the calls that waited: an
\* approved call stays, an edited call is replaced, a rejected call is dropped
RECURSIVE RevisedCalls(_, _)
RevisedCalls(waiting, decisions) ==
    IF waiting = <<>> THEN <<>>
    ELSE (CASE Head(decisions).type = "approve" -> <<Head(waiting)>>
            [] Head(decisions).type = "edit" -> <<Head(decisions).edited_action>>
            [] Head(decisions).type = "reject" -> <<>>)
         \o RevisedCalls(Tail(waiting), Tail(decisions))

\* a rejected call is answered by a ToolMessage in place of the tool's
RECURSIVE RejectionMessages(_, _)
RejectionMessages(waiting, decisions) ==
    IF waiting = <<>> THEN <<>>
    ELSE (IF Head(decisions).type = "reject"
          THEN <<ToolMessage(Head(decisions).message, Head(waiting).name)>>
          ELSE <<>>)
         \o RejectionMessages(Tail(waiting), Tail(decisions))

\* the tool calls after_model writes back into the AI message: an edited call
\* replaces the model's, an approved or rejected one stays
DecidedCalls(waiting, decisions) ==
    [i \in 1..Len(waiting) |->
        IF decisions[i].type = "edit" THEN decisions[i].edited_action ELSE waiting[i]]

\* after_model resumed with `decisions`: the calls left to run and the messages added;
\* one decision per waiting call, or ValueError
Decide(cs, interrupt_on, decisions) ==
    LET waiting == InterruptCalls(cs, interrupt_on)
        auto_approved == SelectSeq(cs, LAMBDA c : c.name \notin InterruptOn(interrupt_on))
    IN  IF Len(decisions) # Len(waiting)
        THEN [error |-> TRUE, calls |-> <<>>, tool_calls |-> cs, messages |-> <<>>]
        ELSE [error |-> FALSE,
              calls |-> auto_approved \o RevisedCalls(waiting, decisions),
              tool_calls |-> auto_approved \o DecidedCalls(waiting, decisions),
              messages |-> RejectionMessages(waiting, decisions)]

\* the checkpointer: what a thread's last checkpoint holds, and saving one
EmptyState == [messages |-> <<>>, custom |-> NoValue, calls |-> <<>>, next |-> "done"]
Saved(cp, t) == IF t \in DOMAIN cp THEN cp[t] ELSE EmptyState
Put(cp, t, msgs, cust, cs, next) ==
    [x \in DOMAIN cp \cup {t} |->
        IF x = t THEN [messages |-> msgs, custom |-> cust, calls |-> cs, next |-> next]
        ELSE cp[x]]

----------------------------------------------------------------------------
(* module3/dynamic_models.py *)

MESSAGE_THRESHOLD == 10
large_model == "claude-sonnet-4-5"
standard_model == "gpt-5-nano"

select_model_by_message_count_ge(message_count, threshold) ==
    IF message_count >= threshold THEN large_model ELSE standard_model

select_model_by_message_count(message_count, threshold) ==
    IF message_count > threshold THEN large_model ELSE standard_model

\* the model the middleware puts in the request it hands on
state_based_model(request_messages) ==
    select_model_by_message_count(Len(request_messages), MESSAGE_THRESHOLD)

\* create_dynamic_agent: no tools, no checkpointer, one middleware
create_dynamic_agent ==
    [tools |-> {}, middleware |-> <<"state_based_model">>, checkpointer |-> FALSE]

\* a conversation of n messages, human and AI in turn, as run_example builds them
Conversation(n) ==
    [i \in 1..n |-> IF i % 2 = 1 THEN HumanMessage("question") ELSE AIMessage("answer", <<>>)]

InitModels ==
    /\ pc = "idle"
    /\ messages = <<>>
    /\ custom = NoValue
    /\ checkpoints = NoValue
    /\ thread = None
    /\ context = NoContext
    /\ offered = {}
    /\ calls = <<>>
    /\ invocation = 0
    /\ nextId = 1
    /\ modelCalls = 0
    /\ agent = create_dynamic_agent
    /\ \E n \in 0..MaxCount, t \in 0..MaxCount :
          last = [op |-> "arguments", message_count |-> n, threshold |-> t, result |-> None]
    /\ log = <<>>

\* a direct call select_model_by_message_count(message_count, threshold)
ModelsSelect ==
    /\ last.op = "arguments"
    /\ last' = [last EXCEPT !.op = "select_model_by_message_count",
                            !.result = select_model_by_message_count(last.message_count,
                                                                     last.threshold)]
    /\ UNCHANGED <<pc, messages, custom, checkpoints, thread, context, offered, calls,
                   invocation, nextId, modelCalls, agent, log>>

\* agent.invoke({"messages": [...]}) with no config: the run starts from the input alone
ModelsInvoke ==
    /\ pc = "idle"
    /\ invocation < MaxInvocations
    /\ \E n \in 1..MaxCount :
          /\ messages' = add_messages(<<>>, Conversation(n), 1)
          /\ nextId' = 1 + n
    /\ invocation' = invocation + 1
    /\ pc' = "model"
    /\ modelCalls' = 0
    /\ UNCHANGED <<custom, checkpoints, thread, context, offered, calls, agent, last, log>>

\* the model node, wrapped by state_based_model; the agent has no tools, so the
\* answer ends the run
ModelsModelCall ==
    /\ pc = "model"
    /\ last' = [op |-> "state_based_model", message_count |-> Len(messages),
                threshold |-> MESSAGE_THRESHOLD, result |-> state_based_model(messages)]
    /\ messages' = add_messages(messages, <<AIMessage("answer", <<>>)>>, nextId)
    /\ nextId' = nextId + 1
    /\ modelCalls' = modelCalls + 1
    /\ pc' = "idle"
    /\ UNCHANGED <<custom, checkpoints, thread, context, offered, calls, invocation, agent, log>>

NextModels == ModelsSelect \/ ModelsInvoke \/ ModelsModelCall

SpecModels == InitModels /\ [][NextModels]_vars

\* C6: select_model_by_message_count(n, t) is the large model exactly when n > t and
\* the standard model for every n <= t (n = t included); state_based_model applies it
\* to len(request.messages) with the default threshold 10, so 10 messages still get
\* the standard model and 11 the large one.
C6_SelectModel ==
    last.op \in {"select_model_by_message_count", "state_based_model"} =>
        /\ last.result = large_model <=> last.message_count > last.threshold
        /\ last.result = standard_model <=> last.message_count <= last.threshold
        /\ last.op = "state_based_model" =>
              /\ last.threshold = 10
              /\ last.message_count = 10 => last.result = standard_model
              /\ last.message_count = 11 => last.result = large_model

\* a direct call with message_count = threshold = 10 that selected the standard model
C6_Witness ==
    /\ last.op = "select_model_by_message_count"
    /\ last.message_count = 10
    /\ last.threshold = 10
    /\ last.result = standard_model

----------------------------------------------------------------------------
(* module3/email_agent.py *)

Emails == {"julie@example.com", "user@example.com"}
Passwords == {"passwd", "secure_password"}

EmailContext(email_address, password) ==
    [email_address |-> email_address, password |-> password]
\* EmailContext() with EMAIL_ADDRESS and EMAIL_PASSWORD unset
DefaultEmailContext == EmailContext("julie@example.com", "passwd")
\* the contexts an invocation may carry; NoContext when invoke is given no context
EmailContexts == {EmailContext(e, p) : e \in Emails, p \in Passwords} \cup {NoContext}

check_inbox == ToolOutput("Hi Julie, ... - best, Jane (jane@example.com)", "check_inbox")

send_email(to, subject, body) == ToolOutput("Email sent to " \o to, "send_email")

authenticate_either(email, password, runtime_context) ==
    IF runtime_context = NoContext
    THEN ToolCommand([authenticated |-> FALSE],
                     <<ToolMessage("Authentication error", "authenticate")>>)
    ELSE IF email = runtime_context.email_address \/ password = runtime_context.password
         THEN ToolCommand([authenticated |-> TRUE],
                          <<ToolMessage("Successfully authenticated", "authenticate")>>)
         ELSE ToolCommand([authenticated |-> FALSE],
                          <<ToolMessage("Authentication failed - invalid credentials",
                                        "authenticate")>>)

\* reading runtime.context.email_address raises when the invocation has no context
\* (runtime.context is None); the except branch answers that
authenticate(email, password, runtime_context) ==
    IF runtime_context = NoContext
    THEN ToolCommand([authenticated |-> FALSE],
                     <<ToolMessage("Authentication error", "authenticate")>>)
    ELSE IF email = runtime_context.email_address /\ password = runtime_context.password
         THEN ToolCommand([authenticated |-> TRUE],
                          <<ToolMessage("Successfully authenticated", "authenticate")>>)
         ELSE ToolCommand([authenticated |-> FALSE],
                          <<ToolMessage("Authentication failed - invalid credentials",
                                        "authenticate")>>)

dynamic_tool_call_inbox_always(state) ==
    IF Get(state, "authenticated", FALSE)
    THEN {"check_inbox", "send_email"}
    ELSE {"authenticate", "check_inbox"}

\* the tools of the request the middleware hands to the handler
dynamic_tool_call(state) ==
    IF Get(state, "authenticated", FALSE)
    THEN {"check_inbox", "send_email"}
    ELSE {"authenticate"}

AUTHENTICATED_PROMPT == "You are a helpful assistant that can check the inbox and send emails."
UNAUTHENTICATED_PROMPT == "You are a helpful assistant that can authenticate users."

dynamic_prompt_func(state) ==
    IF Get(state, "authenticated", FALSE) THEN AUTHENTICATED_PROMPT ELSE UNAUTHENTICATED_PROMPT

create_email_agent_authenticate_unguarded(require_approval) ==
    [tools |-> {"authenticate", "check_inbox", "send_email"},
     middleware |-> <<"dynamic_tool_call", "dynamic_prompt_func", "HumanInTheLoopMiddleware">>,
     interrupt_on |-> [authenticate |-> FALSE,
                       check_inbox |-> require_approval,
                       send_email |-> require_approval],
     require_approval |-> require_approval,
     checkpointer |-> FALSE]

\* create_agent is given no checkpointer
create_email_agent(require_approval) ==
    [tools |-> {"authenticate", "check_inbox", "send_email"},
     middleware |-> <<"dynamic_tool_call", "dynamic_prompt_func", "HumanInTheLoopMiddleware">>,
     interrupt_on |-> [authenticate |-> require_approval,
                       check_inbox |-> require_approval,
                       send_email |-> require_approval],
     require_approval |-> require_approval,
     checkpointer |-> FALSE]

\* the tool calls the model can make of a tool, over the values of the model
EmailToolCalls(name) ==
    CASE name = "authenticate" ->
            {ToolCall("authenticate", <<e, p>>) : e \in Emails, p \in Passwords}
      [] name = "check_inbox" -> {ToolCall("check_inbox", <<>>)}
      [] name = "send_email" ->
            {ToolCall("send_email", <<"jane@example.com", "Re: coffee", "Sure">>)}

\* the tool node on one call
EmailTool(call, runtime_context) ==
    CASE call.name = "authenticate" -> authenticate(call.args[1], call.args[2], runtime_context)
      [] call.name = "check_inbox" -> check_inbox
      [] call.name = "send_email" -> send_email(call.args[1], call.args[2], call.args[3])

InitEmail ==
    /\ pc = "idle"
    /\ messages = <<>>
    /\ custom = NoValue
    /\ checkpoints = NoValue
    /\ thread = None
    /\ context = NoContext
    /\ offered = {}
    /\ calls = <<>>
    /\ invocation = 0
    /\ nextId = 1
    /\ modelCalls = 0
    /\ \E require_approval \in BOOLEAN : agent = create_email_agent(require_approval)
    /\ last = [op |-> "create_email_agent"]
    /\ log = <<>>

\* agent.invoke({"messages": [HumanMessage(...)]}, context=c): without a checkpointer
\* the run starts from the input alone, whatever an earlier invocation left
EmailInvoke ==
    /\ pc \in {"idle", "done", "interrupted"}
    /\ invocation < MaxInvocations
    /\ invocation' = invocation + 1
    /\ \E c \in EmailContexts : context' = c
    /\ messages' = add_messages(<<>>, <<HumanMessage("request")>>, 1)
    /\ nextId' = 2
    /\ custom' = NoValue
    /\ offered' = {}
    /\ calls' = <<>>
    /\ modelCalls' = 0
    /\ pc' = "model"
    /\ last' = [op |-> "invoke"]
    /\ UNCHANGED <<checkpoints, thread, agent, log>>

\* the model node inside dynamic_tool_call and dynamic_prompt_func, then the
\* after_model hook of HumanInTheLoopMiddleware: a call of a tool in interrupt_on
\* raises the interrupt before the tools node is reached
EmailModelCall ==
    /\ pc = "model"
    /\ modelCalls < MaxModelCalls
    /\ modelCalls' = modelCalls + 1
    /\ offered' = dynamic_tool_call(custom)
    /\ \E response \in ModelResponses(UNION {EmailToolCalls(t) : t \in offered'}) :
          /\ calls' = response
          /\ messages' = add_messages(messages, <<AIMessage("answer", response)>>, nextId)
    /\ nextId' = nextId + 1
    /\ pc' = IF calls' = <<>> THEN "done"
             ELSE IF InterruptCalls(calls', agent.interrupt_on) # <<>> THEN "interrupted"
             ELSE "tools"
    /\ last' = [op |-> "model", prompt |-> dynamic_prompt_func(custom)]
    /\ UNCHANGED <<custom, checkpoints, thread, context, invocation, agent, log>>

\* the tools node: every call of the AI message runs, and their updates are applied
\* together
EmailTools ==
    /\ pc = "tools"
    /\ LET results == [i \in 1..Len(calls) |-> EmailTool(calls[i], context)]
       IN  /\ last' = [op |-> "tools", calls |-> calls, results |-> results]
           /\ IF InvalidUpdate(results)
              THEN /\ pc' = "error"
                   /\ UNCHANGED <<messages, custom, nextId>>
              ELSE /\ pc' = "model"
                   /\ custom' = Merge(custom, StateUpdate(results))
                   /\ messages' = add_messages(messages, ToolMessages(results), nextId)
                   /\ nextId' = nextId + Len(ToolMessages(results))
    /\ calls' = <<>>
    /\ UNCHANGED <<checkpoints, thread, context, offered, invocation, modelCalls, agent, log>>

NextEmail == EmailInvoke \/ EmailModelCall \/ EmailTools

SpecEmail == InitEmail /\ [][NextEmail]_vars

\* C1: at every model call the request offers exactly {authenticate} when state
\* "authenticated" is False or absent and exactly {check_inbox, send_email} when it is
\* True, so check_inbox and send_email are never offered unless it is True.
C1_ToolsByAuthentication ==
    [][modelCalls' = modelCalls + 1 =>
          /\ ("authenticated" \notin DOMAIN custom \/ custom["authenticated"] = FALSE)
                => offered' = {"authenticate"}
          /\ ("authenticated" \in DOMAIN custom /\ custom["authenticated"] = TRUE)
                => offered' = {"check_inbox", "send_email"}
          /\ (offered' \cap {"check_inbox", "send_email"} # {})
                => ("authenticated" \in DOMAIN custom /\ custom["authenticated"] = TRUE)]_vars

\* a model call made in an authenticated state, after one made in an unauthenticated one
C1_Witness ==
    /\ last.op = "model"
    /\ modelCalls = 2
    /\ "authenticated" \in DOMAIN custom /\ custom["authenticated"] = TRUE
    /\ offered = {"check_inbox", "send_email"}

\* C2: every authenticate(email, password) call that runs returns the update
\* authenticated = True exactly when the invocation has a context and email and
\* password both equal its email_address and password, and authenticated = False in
\* every other case (one differs, or reading the context raises); the state takes
\* that value.
C2_AuthenticateIff ==
    last.op = "tools" =>
        \A i \in 1..Len(last.calls) :
            last.calls[i].name = "authenticate" =>
                LET matches == /\ context # NoContext
                               /\ last.calls[i].args[1] = context.email_address
                               /\ last.calls[i].args[2] = context.password
                IN  /\ last.results[i].update = [authenticated |-> matches]
                    /\ pc # "error" =>
                          /\ "authenticated" \in DOMAIN custom
                          /\ custom["authenticated"] = matches

\* an authenticate call with the right email and the wrong password has run
C2_Witness ==
    /\ last.op = "tools"
    /\ Len(last.calls) = 1
    /\ last.calls[1].name = "authenticate"
    /\ context # NoContext
    /\ last.calls[1].args[1] = context.email_address
    /\ last.calls[1].args[2] # context.password
    /\ custom["authenticated"] = FALSE

----------------------------------------------------------------------------
(* module3/hitl.py *)

\* the script: one invocation, then three resumes with these decisions, all on thread "1"
HitlScript ==
    <<[type |-> "invoke"],
      [type |-> "approve"],
      [type |-> "reject", message |-> "No please sign off - Your merciful leader, Sean."],
      [type |-> "edit",
       edited_action |-> ToolCall("send_email", <<"This is the last straw, you're fired!">>)]>>

read_email(state) == ToolOutput(state["email"], "read_email")

hitl_send_email(body) == ToolOutput("Email sent", "send_email")

hitl_agent_no_interrupt ==
    [tools |-> {"read_email", "send_email"},
     middleware |-> <<"HumanInTheLoopMiddleware">>,
     interrupt_on |-> [read_email |-> FALSE, send_email |-> FALSE],
     checkpointer |-> TRUE]

hitl_agent ==
    [tools |-> {"read_email", "send_email"},
     middleware |-> <<"HumanInTheLoopMiddleware">>,
     interrupt_on |-> [read_email |-> FALSE, send_email |-> TRUE],
     checkpointer |-> TRUE]

HitlToolCalls(name) ==
    CASE name = "read_email" -> {ToolCall("read_email", <<>>)}
      [] name = "send_email" -> {ToolCall("send_email", <<"Sure, let us reschedule.">>)}

HitlTool(call, state) ==
    CASE call.name = "read_email" -> read_email(state)
      [] call.name = "send_email" -> hitl_send_email(call.args[1])

InitHitl ==
    /\ pc = "idle"
    /\ messages = <<>>
    /\ custom = NoValue
    /\ checkpoints = NoValue
    /\ thread = "1"
    /\ context = NoContext
    /\ offered = {}
    /\ calls = <<>>
    /\ invocation = 0
    /\ nextId = 1
    /\ modelCalls = 0
    /\ agent = hitl_agent
    /\ last = [op |-> "create_agent"]
    /\ log = <<>>

\* agent.invoke({"messages": [...], "email": ...}, config): the input is merged into
\* what the thread's checkpoint holds
HitlInvoke ==
    /\ pc = "idle"
    /\ invocation = 0
    /\ invocation' = 1
    /\ LET saved == Saved(checkpoints, thread)
       IN  /\ messages' = add_messages(saved.messages,
                                       <<HumanMessage("Please read my email and send a response.")>>,
                                       nextId)
           /\ custom' = Merge(saved.custom, [email |-> "Hi Sean, ... Can we reschedule?"])
    /\ nextId' = nextId + 1
    /\ calls' = <<>>
    /\ modelCalls' = 0
    /\ pc' = "model"
    /\ checkpoints' = Put(checkpoints, thread, messages', custom', calls', pc')
    /\ last' = [op |-> "invoke"]
    /\ UNCHANGED <<thread, context, offered, agent, log>>

\* the model node, then after_model of HumanInTheLoopMiddleware
HitlModelCall ==
    /\ pc = "model"
    /\ modelCalls < MaxHitlModelCalls
    /\ modelCalls' = modelCalls + 1
    /\ offered' = agent.tools
    /\ \E response \in ModelResponses(UNION {HitlToolCalls(t) : t \in offered'}) :
          /\ calls' = response
          /\ messages' = add_messages(messages, <<AIMessage("answer", response)>>, nextId)
    /\ nextId' = nextId + 1
    /\ pc' = IF calls' = <<>> THEN "done"
             ELSE IF InterruptCalls(calls', agent.interrupt_on) # <<>> THEN "interrupted"
             ELSE "tools"
    /\ checkpoints' = Put(checkpoints, thread, messages', custom, calls', pc')
    /\ last' = [op |-> "model"]
    /\ UNCHANGED <<custom, thread, context, invocation, agent, log>>

\* agent.invoke(Command(resume={"decisions": [d]}), config), d the script's next
\* decision.  With an interrupt pending, after_model runs again with the decision;
\* with none, the thread has nothing to run and the call returns its state.
HitlResume ==
    /\ pc \in {"done", "interrupted"}
    /\ invocation \in 1..(Len(HitlScript) - 1)
    /\ invocation' = invocation + 1
    /\ LET decision == HitlScript[invocation + 1]
           d == Decide(calls, agent.interrupt_on, <<decision>>)
           ai == messages[Len(messages)]
       IN  /\ last' = [op |-> "resume", decision |-> decision.type,
                       pending |-> (pc = "interrupted")]
           /\ IF pc = "done"
              THEN UNCHANGED <<pc, messages, calls, nextId>>
              ELSE IF d.error
              THEN /\ pc' = "error"
                   /\ UNCHANGED <<messages, calls, nextId>>
              ELSE /\ calls' = d.calls
                   /\ messages' = add_messages(messages,
                                               <<[ai EXCEPT !.tool_calls = d.tool_calls]>>
                                                   \o d.messages,
                                               nextId)
                   /\ nextId' = nextId + 1 + Len(d.messages)
                   /\ pc' = IF calls' # <<>> THEN "tools" ELSE "model"
    /\ checkpoints' = Put(checkpoints, thread, messages', custom, calls', pc')
    /\ UNCHANGED <<custom, thread, context, offered, modelCalls, agent, log>>

\* the tools node
HitlTools ==
    /\ pc = "tools"
    /\ LET results == [i \in 1..Len(calls) |-> HitlTool(calls[i], custom)]
       IN  /\ last' = [op |-> "tools", calls |-> calls, results |-> results]
           /\ messages' = add_messages(messages, ToolMessages(results), nextId)
           /\ nextId' = nextId + Len(ToolMessages(results))
    /\ calls' = <<>>
    /\ pc' = "model"
    /\ checkpoints' = Put(checkpoints, thread, messages', custom, calls', pc')
    /\ UNCHANGED <<custom, thread, context, offered, invocation, modelCalls, agent, log>>

NextHitl == HitlInvoke \/ HitlModelCall \/ HitlResume \/ HitlTools

SpecHitl == InitHitl /\ [][NextHitl]_vars

HitlModelStep == modelCalls' = modelCalls + 1
HitlToolsStep == pc = "tools" /\ pc' = "model"

\* C3 as stated: a send_email call never runs before a human decision for it was
\* supplied, and a read_email call runs without any pause between the model's answer
\* and its execution.
C3_Original ==
    /\ [][(HitlToolsStep /\ Calls(calls, "send_email")) =>
             (last.op = "resume" /\ last.pending /\ last.decision \in {"approve", "edit"})]_vars
    /\ [][(HitlToolsStep /\ Calls(calls, "read_email")) => last.op = "model"]_vars

\* C3, amended: a send_email call runs only right after a resume that approved or
\* edited it, every model answer that calls send_email pauses the run, and an answer
\* that calls only read_email goes to the tools node without a pause (a read_email
\* call in an answer that also calls send_email waits for the decision with it).
C3_SendNeedsDecision ==
    /\ [][(HitlToolsStep /\ Calls(calls, "send_email")) =>
             (last.op = "resume" /\ last.pending /\ last.decision \in {"approve", "edit"})]_vars
    /\ [][HitlModelStep => (pc' = "interrupted" <=> Calls(calls', "send_email"))]_vars
    /\ [][(HitlModelStep /\ calls' # <<>> /\ ~Calls(calls', "send_email")) => pc' = "tools"]_vars
    /\ [][(HitlToolsStep /\ Calls(calls, "read_email") /\ last.op # "model") =>
             (last.op = "resume" /\ last.pending)]_vars

\* a send_email call has run after the approval, the email having been read unpaused
C3_Witness ==
    /\ last.op = "tools"
    /\ Calls(last.calls, "send_email")
    /\ invocation = 2
    /\ \E i \in 1..Len(messages) : messages[i].type = "tool" /\ messages[i].name = "read_email"

----------------------------------------------------------------------------
(* module1/memory.py *)

no_memory_agent == [name |-> "no_memory", tools |-> {}, middleware |-> <<>>, checkpointer |-> FALSE]

memory_agent_no_checkpointer ==
    [name |-> "memory", tools |-> {}, middleware |-> <<>>, checkpointer |-> FALSE]

memory_agent == [name |-> "memory", tools |-> {}, middleware |-> <<>>, checkpointer |-> TRUE]

\* the two questions both functions ask, in order
MemoryQuestions ==
    <<"Hello, my name is Alex and my favorite color is yellow",
      "What is your favorite color?">>

\* the config of the invocations: memory() passes thread_id "1", no_memory() none
MemoryThread(a) == IF a.name = "memory" THEN "1" ELSE None

\* the state an invocation starts from: the thread's checkpoint, if the agent has a
\* checkpointer and the invocation a thread
StartState(a, cp, t) == IF a.checkpointer /\ t # None THEN Saved(cp, t) ELSE EmptyState

\* what a step leaves in the checkpointer
Checkpoint(a, cp, t, msgs, cust, cs, next) ==
    IF a.checkpointer /\ t # None THEN Put(cp, t, msgs, cust, cs, next) ELSE cp

InitMemory ==
    /\ pc = "idle"
    /\ messages = <<>>
    /\ custom = NoValue
    /\ checkpoints = NoValue
    /\ agent \in {no_memory_agent, memory_agent}
    /\ thread = MemoryThread(agent)
    /\ context = NoContext
    /\ offered = {}
    /\ calls = <<>>
    /\ invocation = 0
    /\ nextId = 1
    /\ modelCalls = 0
    /\ last = [op |-> "create_agent"]
    /\ log = <<>>

\* agent.invoke({"messages": [question]}[, config])
MemoryInvoke ==
    /\ pc \in {"idle", "done"}
    /\ invocation < Len(MemoryQuestions)
    /\ invocation' = invocation + 1
    /\ messages' = add_messages(StartState(agent, checkpoints, thread).messages,
                                <<HumanMessage(MemoryQuestions[invocation'])>>, nextId)
    /\ nextId' = nextId + 1
    /\ modelCalls' = 0
    /\ pc' = "model"
    /\ checkpoints' = Checkpoint(agent, checkpoints, thread, messages', custom, calls, pc')
    /\ last' = [op |-> "invoke"]
    /\ UNCHANGED <<custom, thread, context, offered, calls, agent, log>>

\* the model node: the agent has no tools, so the answer ends the run
MemoryModelCall ==
    /\ pc = "model"
    /\ modelCalls' = modelCalls + 1
    /\ \E answer \in 1..MaxAnswers :
          messages' = add_messages(messages, <<AIMessage(answer, <<>>)>>, nextId)
    /\ nextId' = nextId + 1
    /\ pc' = "done"
    /\ checkpoints' = Checkpoint(agent, checkpoints, thread, messages', custom, calls, pc')
    /\ last' = [op |-> "model", transcript |-> messages]
    /\ UNCHANGED <<custom, thread, context, offered, calls, invocation, agent, log>>

NextMemory == MemoryInvoke \/ MemoryModelCall

SpecMemory == InitMemory /\ [][NextMemory]_vars

\* C5: in memory() the transcript the second invocation starts with is every message
\* the first invocation ended with (its question, then its answer), in that order,
\* followed by the new question.
C5_TranscriptPersists ==
    [][(agent.name = "memory" /\ invocation = 1 /\ invocation' = 2) =>
          /\ Len(messages) = 2
          /\ messages[1].type = "human" /\ messages[1].content = MemoryQuestions[1]
          /\ messages[2].type = "ai"
          /\ Len(messages') = 3
          /\ SubSeq(messages', 1, 2) = messages
          /\ messages'[3].type = "human" /\ messages'[3].content = MemoryQuestions[2]]_vars

\* the model of the second invocation of memory() has answered a transcript of three
C5_Witness ==
    /\ agent.name = "memory"
    /\ invocation = 2
    /\ last.op = "model"
    /\ Len(last.transcript) = 3
    /\ last.transcript[1].content = MemoryQuestions[1]
    /\ last.transcript[3].content = MemoryQuestions[2]

----------------------------------------------------------------------------
(* module3/dynamic_tools.py *)

\* UserRole(user_role); UserRole() is the default, "external"
UserRole(user_role) == [user_role |-> user_role]
DefaultUserRole == UserRole("external")
\* the roles tried: the two the script names and two it does not
UserRoles == {"internal", "external", "Internal", "admin"}

\* what the database or the search service does with a query: an answer or an exception
Outcomes == {[raised |-> FALSE, value |-> "rows"], [raised |-> TRUE, value |-> "no such table"]}

web_search(query, outcome) == ToolOutput(outcome.value, "web_search")

\* db.run(query), or "Error: <e>" when it raises
sql_query(query, outcome) ==
    IF outcome.raised
    THEN ToolOutput("Error: " \o outcome.value, "sql_query")
    ELSE ToolOutput(outcome.value, "sql_query")

dynamic_tool_call_by_role_not_external(request_tools, runtime_context) ==
    IF runtime_context.user_role # "external" THEN request_tools ELSE {"web_search"}

\* dynamic_tool_call of dynamic_tools.py: the tools of the request handed to the handler
dynamic_tool_call_by_role(request_tools, runtime_context) ==
    IF runtime_context.user_role = "internal" THEN request_tools ELSE {"web_search"}

init_agent ==
    [name |-> "dynamic_tools", tools |-> {"web_search", "sql_query"},
     middleware |-> <<"dynamic_tool_call">>, checkpointer |-> FALSE]

RoleToolCalls(name) ==
    CASE name = "web_search" -> {ToolCall("web_search", <<"artists">>)}
      [] name = "sql_query" -> {ToolCall("sql_query", <<"SELECT COUNT(*) FROM Artist">>)}

RoleTool(call, outcome) ==
    CASE call.name = "web_search" -> web_search(call.args[1], outcome)
      [] call.name = "sql_query" -> sql_query(call.args[1], outcome)

InitRoles ==
    /\ pc = "idle"
    /\ messages = <<>>
    /\ custom = NoValue
    /\ checkpoints = NoValue
    /\ agent = init_agent
    /\ thread = None
    /\ context = NoContext
    /\ offered = {}
    /\ calls = <<>>
    /\ invocation = 0
    /\ nextId = 1
    /\ modelCalls = 0
    /\ last = [op |-> "create_agent"]
    /\ log = <<>>

\* init_agent().invoke({"messages": [...]}, context={"user_role": r}): the dict is made
\* a UserRole; an invocation without context leaves runtime.context None
RolesInvoke ==
    /\ pc \in {"idle", "done"}
    /\ invocation < MaxInvocations
    /\ invocation' = invocation + 1
    /\ context' \in {UserRole(r) : r \in UserRoles} \cup {NoContext}
    /\ messages' = add_messages(<<>>, <<HumanMessage("How many artists are in the database?")>>,
                                1)
    /\ nextId' = 2
    /\ offered' = {}
    /\ calls' = <<>>
    /\ modelCalls' = 0
    /\ pc' = "model"
    /\ last' = [op |-> "invoke"]
    /\ UNCHANGED <<custom, checkpoints, thread, agent, log>>

\* the model node inside dynamic_tool_call; reading user_role of no context raises
\* and ends the run
RolesModelCall ==
    /\ pc = "model"
    /\ modelCalls < MaxModelCalls
    /\ modelCalls' = modelCalls + 1
    /\ last' = [op |-> "model"]
    /\ IF context = NoContext
       THEN /\ pc' = "error"
            /\ UNCHANGED <<messages, offered, calls, nextId>>
       ELSE /\ offered' = dynamic_tool_call_by_role(agent.tools, context)
            /\ \E response \in ModelResponses(UNION {RoleToolCalls(t) : t \in offered'}) :
                  /\ calls' = response
                  /\ messages' = add_messages(messages, <<AIMessage("answer", response)>>,
                                              nextId)
            /\ nextId' = nextId + 1
            /\ pc' = IF calls' = <<>> THEN "done" ELSE "tools"
    /\ UNCHANGED <<custom, checkpoints, thread, context, invocation, agent, log>>

\* the tools node; each sql_query call meets its own outcome of the database (a
\* search is taken to succeed)
RolesTools ==
    /\ pc = "tools"
    /\ \E outcomes \in {o \in [1..Len(calls) -> Outcomes] :
                            \A i \in 1..Len(calls) :
                                calls[i].name = "web_search" => ~o[i].raised} :
          LET results == [i \in 1..Len(calls) |-> RoleTool(calls[i], outcomes[i])]
          IN  /\ last' = [op |-> "tools", calls |-> calls, outcomes |-> outcomes,
                          results |-> results]
              /\ messages' = add_messages(messages, ToolMessages(results), nextId)
              /\ nextId' = nextId + Len(ToolMessages(results))
    /\ calls' = <<>>
    /\ pc' = "model"
    /\ UNCHANGED <<custom, checkpoints, thread, context, offered, invocation, modelCalls,
                   agent, log>>

NextRoles == RolesInvoke \/ RolesModelCall \/ RolesTools

SpecRoles == InitRoles /\ [][NextRoles]_vars

\* C7: at every model call of the dynamic-tools agent the request offers only
\* web_search when user_role is anything but exactly "internal" (the default
\* "external" included), and is passed on unchanged, offering web_search and
\* sql_query, when user_role is "internal"; so sql_query never runs for another role.
C7_ToolsByRole ==
    /\ [][(modelCalls' = modelCalls + 1 /\ context # NoContext) =>
             /\ context.user_role = "internal" => offered' = {"web_search", "sql_query"}
             /\ context.user_role # "internal" => offered' = {"web_search"}]_vars
    /\ [](offered # {} => ("sql_query" \in offered <=> context.user_role = "internal"))
    /\ []((last.op = "tools" /\ Calls(last.calls, "sql_query")) =>
             context.user_role = "internal")

\* a model call for a role that is neither "internal" nor the default was offered
\* web_search alone
C7_Witness ==
    /\ last.op = "model"
    /\ context # NoContext
    /\ context.user_role \notin {"internal", "external"}
    /\ offered = {"web_search"}

----------------------------------------------------------------------------
(* module3/managing_messages.py *)

trim_messages_ai(state_messages) ==
    LET tool_messages == SelectSeq(state_messages, LAMBDA m : m.type = "ai")
    IN  [i \in 1..Len(tool_messages) |-> RemoveMessage(tool_messages[i].id)]

\* the update the before_agent hook returns: a RemoveMessage for every ToolMessage
trim_messages(state_messages) ==
    LET tool_messages == SelectSeq(state_messages, LAMBDA m : m.type = "tool")
    IN  [i \in 1..Len(tool_messages) |-> RemoveMessage(tool_messages[i].id)]

trim_agent ==
    [name |-> "trim_and_delete_messages", tools |-> {},
     middleware |-> <<"trim_messages">>, checkpointer |-> TRUE]

\* the input of trim_and_delete_messages
TrimScriptInput ==
    <<HumanMessage("My device won't turn on. What should I do?"),
      ToolMessage("blorp-x7 initiating diagnostic ping", "1"),
      AIMessage("Is the device plugged in and turned on?", <<>>),
      HumanMessage("Yes, it's plugged in and turned on."),
      ToolMessage("temp=42C voltage=2.9v greeble complete.", "2"),
      AIMessage("Is the device showing any lights or indicators?", <<>>),
      HumanMessage("What's the temperature of the device?")>>

\* the inputs tried: the script's, and every short list of the three kinds of message
TrimInputs ==
    {TrimScriptInput} \cup
    (SeqsUpTo({HumanMessage("question"), AIMessage("answer", <<>>),
               ToolMessage("result", "1")}, MaxInput) \ {<<>>})

InitTrim ==
    /\ pc = "idle"
    /\ messages = <<>>
    /\ custom = NoValue
    /\ checkpoints = NoValue
    /\ agent = trim_agent
    /\ thread = "2"
    /\ context = NoContext
    /\ offered = {}
    /\ calls = <<>>
    /\ invocation = 0
    /\ nextId = 1
    /\ modelCalls = 0
    /\ last = [op |-> "create_agent"]
    /\ log = <<>>

\* agent.invoke({"messages": [...]}, {"configurable": {"thread_id": "2"}})
TrimInvoke ==
    /\ pc \in {"idle", "done"}
    /\ invocation < MaxTrimInvocations
    /\ invocation' = invocation + 1
    /\ \E input \in TrimInputs :
          /\ messages' = add_messages(StartState(agent, checkpoints, thread).messages,
                                      input, nextId)
          /\ nextId' = nextId + Len(input)
    /\ modelCalls' = 0
    /\ pc' = "before_agent"
    /\ checkpoints' = Checkpoint(agent, checkpoints, thread, messages', custom, calls, pc')
    /\ last' = [op |-> "invoke"]
    /\ UNCHANGED <<custom, thread, context, offered, calls, agent, log>>

\* the before_agent node: trim_messages, and its update applied to the state
TrimBeforeAgent ==
    /\ pc = "before_agent"
    /\ LET update == trim_messages(messages)
       IN  /\ messages' = add_messages(messages, update, nextId)
           /\ last' = [op |-> "before_agent", removed |-> Len(update)]
    /\ pc' = "model"
    /\ checkpoints' = Checkpoint(agent, checkpoints, thread, messages', custom, calls, pc')
    /\ UNCHANGED <<custom, thread, context, offered, calls, invocation, nextId, modelCalls,
                   agent, log>>

\* the model node: the agent has no tools, so the answer ends the run
TrimModelCall ==
    /\ pc = "model"
    /\ modelCalls' = modelCalls + 1
    /\ messages' = add_messages(messages, <<AIMessage("answer", <<>>)>>, nextId)
    /\ nextId' = nextId + 1
    /\ pc' = "done"
    /\ checkpoints' = Checkpoint(agent, checkpoints, thread, messages', custom, calls, pc')
    /\ last' = [op |-> "model", transcript |-> messages]
    /\ UNCHANGED <<custom, thread, context, offered, calls, invocation, agent, log>>

NextTrim == TrimInvoke \/ TrimBeforeAgent \/ TrimModelCall

SpecTrim == InitTrim /\ [][NextTrim]_vars

\* C8: once the update of trim_messages is applied, the transcript holds no
\* ToolMessage: none of those present when the agent turn started is left.
C8_TrimRemovesToolMessages ==
    [][(pc = "before_agent" /\ pc' = "model") =>
          /\ \A i \in 1..Len(messages') : messages'[i].type # "tool"
          /\ \A i \in 1..Len(messages) :
                messages[i].type = "tool" =>
                    \A j \in 1..Len(messages') : messages'[j].id # messages[i].id]_vars

\* the hook has removed the two ToolMessages of the script's input and kept the rest
C8_Witness ==
    /\ last.op = "before_agent"
    /\ last.removed = 2
    /\ Len(messages) = 5
    /\ \A i \in 1..Len(messages) : messages[i].type # "tool"

----------------------------------------------------------------------------
(* module2/state.py *)

Colours == {"green", "blue"}

update_favourite_colour_other_key(favourite_colour) ==
    ToolCommand([favorite_color |-> favourite_colour],
                <<ToolMessage("Successfully updated favourite colour", "update_favourite_colour")>>)

update_favourite_colour(favourite_colour) ==
    ToolCommand([favourite_colour |-> favourite_colour],
                <<ToolMessage("Successfully updated favourite colour", "update_favourite_colour")>>)

\* without the except branch the KeyError would leave the tool
read_favourite_colour_unguarded(state) ==
    IF "favourite_colour" \in DOMAIN state
    THEN ToolOutput(state["favourite_colour"], "read_favourite_colour")
    ELSE ToolOutput("KeyError: 'favourite_colour'", "read_favourite_colour")

read_favourite_colour(state) ==
    IF "favourite_colour" \in DOMAIN state
    THEN ToolOutput(state["favourite_colour"], "read_favourite_colour")
    ELSE ToolOutput("No favourite colour found in state", "read_favourite_colour")

\* the agent of each demo; each demo builds its own InMemorySaver
demo_update_state_agent ==
    [name |-> "demo_update_state", tools |-> {"update_favourite_colour"},
     middleware |-> <<>>, checkpointer |-> TRUE]
demo_read_state_agent ==
    [name |-> "demo_read_state", tools |-> {"update_favourite_colour", "read_favourite_colour"},
     middleware |-> <<>>, checkpointer |-> TRUE]
StateAgent(demo) ==
    IF demo = "demo_update_state" THEN demo_update_state_agent ELSE demo_read_state_agent

\* the second invocation of demo_update_state on the thread of the first
StateScript_one_thread ==
    <<[demo |-> "demo_update_state", thread |-> "1",
       question |-> "My favourite colour is green", input |-> NoValue],
      [demo |-> "demo_update_state", thread |-> "1",
       question |-> "Hello, how are you?", input |-> [favourite_colour |-> "green"]],
      [demo |-> "demo_read_state", thread |-> "1",
       question |-> "My favourite colour is green", input |-> NoValue],
      [demo |-> "demo_read_state", thread |-> "1",
       question |-> "What's my favourite colour?", input |-> NoValue]>>

\* __main__: demo_update_state(), then demo_read_state(); the invocations in order
StateScript ==
    <<[demo |-> "demo_update_state", thread |-> "1",
       question |-> "My favourite colour is green", input |-> NoValue],
      [demo |-> "demo_update_state", thread |-> "10",
       question |-> "Hello, how are you?", input |-> [favourite_colour |-> "green"]],
      [demo |-> "demo_read_state", thread |-> "1",
       question |-> "My favourite colour is green", input |-> NoValue],
      [demo |-> "demo_read_state", thread |-> "1",
       question |-> "What's my favourite colour?", input |-> NoValue]>>

StateToolCalls(name) ==
    CASE name = "update_favourite_colour" ->
            {ToolCall("update_favourite_colour", <<c>>) : c \in Colours}
      [] name = "read_favourite_colour" -> {ToolCall("read_favourite_colour", <<>>)}

StateTool(call, state) ==
    CASE call.name = "update_favourite_colour" -> update_favourite_colour(call.args[1])
      [] call.name = "read_favourite_colour" -> read_favourite_colour(state)

\* what the log keeps of the calls of one tools step
LogEntries(n, cs, results) ==
    [i \in 1..Len(cs) |->
        [invocation |-> n, name |-> cs[i].name, args |-> cs[i].args,
         result |-> results[i].messages[1].content]]

InitState ==
    /\ pc = "idle"
    /\ messages = <<>>
    /\ custom = NoValue
    /\ checkpoints = NoValue
    /\ agent = StateAgent(StateScript[1].demo)
    /\ thread = None
    /\ context = NoContext
    /\ offered = {}
    /\ calls = <<>>
    /\ invocation = 0
    /\ nextId = 1
    /\ modelCalls = 0
    /\ last = [op |-> "create_agent"]
    /\ log = <<>>

\* the script's next agent.invoke(input, config).  A demo's first invocation follows
\* its create_agent: a new agent with a new, empty InMemorySaver.  last keeps what
\* the saver of the invocation before held for the thread.
StateInvoke ==
    /\ pc \in {"idle", "done"}
    /\ invocation < Len(StateScript)
    /\ invocation' = invocation + 1
    /\ LET step == StateScript[invocation']
           new_demo == invocation = 0 \/ StateScript[invocation].demo # step.demo
           saver == IF new_demo THEN NoValue ELSE checkpoints
           first_id == IF new_demo THEN 1 ELSE nextId
           start == StartState(StateAgent(step.demo), saver, step.thread)
       IN  /\ agent' = StateAgent(step.demo)
           /\ thread' = step.thread
           /\ messages' = add_messages(start.messages, <<HumanMessage(step.question)>>, first_id)
           /\ nextId' = first_id + 1
           /\ custom' = Merge(start.custom, step.input)
           /\ log' = IF new_demo THEN <<>> ELSE log
           /\ modelCalls' = IF new_demo THEN 0 ELSE modelCalls
           /\ checkpoints' = Checkpoint(agent', saver, thread', messages', custom', <<>>, "model")
    /\ calls' = <<>>
    /\ pc' = "model"
    /\ last' = [op |-> "invoke", before |-> Saved(checkpoints, thread')]
    /\ UNCHANGED <<context, offered>>

\* the model node; modelCalls counts the model calls of the demo that asked for tools
StateModelCall ==
    /\ pc = "model"
    /\ offered' = agent.tools
    /\ \E response \in ModelResponses(UNION {StateToolCalls(t) : t \in offered'}) :
          /\ response # <<>> => modelCalls < MaxToolRounds
          /\ modelCalls' = IF response # <<>> THEN modelCalls + 1 ELSE modelCalls
          /\ calls' = response
          /\ messages' = add_messages(messages, <<AIMessage("answer", response)>>, nextId)
    /\ nextId' = nextId + 1
    /\ pc' = IF calls' = <<>> THEN "done" ELSE "tools"
    /\ checkpoints' = Checkpoint(agent, checkpoints, thread, messages', custom, calls', pc')
    /\ last' = [op |-> "model"]
    /\ UNCHANGED <<custom, thread, context, invocation, agent, log>>

\* the tools node: every call of the AI message runs on the state of the step, and
\* their updates are applied together
StateTools ==
    /\ pc = "tools"
    /\ LET results == [i \in 1..Len(calls) |-> StateTool(calls[i], custom)]
       IN  /\ last' = [op |-> "tools", calls |-> calls, results |-> results]
           /\ IF InvalidUpdate(results)
              THEN /\ pc' = "error"
                   /\ UNCHANGED <<messages, custom, nextId, log>>
              ELSE /\ pc' = "model"
                   /\ custom' = Merge(custom, StateUpdate(results))
                   /\ messages' = add_messages(messages, ToolMessages(results), nextId)
                   /\ nextId' = nextId + Len(ToolMessages(results))
                   /\ log' = log \o LogEntries(invocation, calls, results)
    /\ calls' = <<>>
    /\ checkpoints' = Checkpoint(agent, checkpoints, thread, messages', custom', calls', pc')
    /\ UNCHANGED <<thread, context, offered, invocation, modelCalls, agent>>

NextState == StateInvoke \/ StateModelCall \/ StateTools

SpecState == InitState /\ [][NextState]_vars

\* the calls of update_favourite_colour logged before the j-th entry
WritesBefore(j) == {i \in 1..(j - 1) : log[i].name = "update_favourite_colour"}

\* C9: in demo_read_state (invocations 3 and 4 of the script, both on thread "1"), a
\* read_favourite_colour that runs in the second invocation returns the colour c that
\* update_favourite_colour(c) wrote in the first, c being the last colour written
\* before the read: the field persists across the invocations of the thread.
C9_ColourPersists ==
    agent.name = "demo_read_state" =>
        \A j \in 1..Len(log) :
            (/\ log[j].name = "read_favourite_colour"
             /\ log[j].invocation = 4
             /\ WritesBefore(j) # {}
             /\ log[Max(WritesBefore(j))].invocation = 3)
                => log[j].result = log[Max(WritesBefore(j))].args[1]

\* update_favourite_colour("blue") ran in the first invocation of demo_read_state and
\* read_favourite_colour in the second, returning "blue"
C9_Witness ==
    /\ agent.name = "demo_read_state"
    /\ Len(log) = 2
    /\ log[1].name = "update_favourite_colour" /\ log[1].invocation = 3
    /\ log[1].args = <<"blue">>
    /\ log[2].name = "read_favourite_colour" /\ log[2].invocation = 4
    /\ log[2].result = "blue"

\* C10: read_favourite_colour never raises: it returns state["favourite_colour"] when
\* the key is present and "No favourite colour found in state" when it is absent, and
\* it updates no state (a step that only reads leaves every field as it was).
C10_ReadNeverRaises ==
    [][(pc = "tools" /\ pc' # "tools") =>
          /\ \A i \in 1..Len(calls) :
                calls[i].name = "read_favourite_colour" =>
                    /\ last'.results[i].update = NoValue
                    /\ last'.results[i].messages[1].content =
                          IF "favourite_colour" \in DOMAIN custom
                          THEN custom["favourite_colour"]
                          ELSE "No favourite colour found in state"
          /\ (\A i \in 1..Len(calls) : calls[i].name = "read_favourite_colour") =>
                (custom' = custom /\ pc' = "model")]_vars

\* read_favourite_colour has run on a state without the key, and answered
C10_Witness ==
    /\ last.op = "tools"
    /\ Calls(last.calls, "read_favourite_colour")
    /\ "favourite_colour" \notin DOMAIN custom
    /\ pc = "model"
    /\ messages[Len(messages)].content = "No favourite colour found in state"

----------------------------------------------------------------------------
(* module2/runtime_context.py *)

\* ColourContext(**overrides): the dataclass's defaults, overridden field by field
ColourContext(overrides) ==
    Merge([favourite_colour |-> "blue", least_favourite_colour |-> "yellow"], overrides)

get_favourite_colour_least(runtime_context) ==
    ToolOutput(runtime_context.least_favourite_colour, "get_favourite_colour")

get_favourite_colour(runtime_context) ==
    ToolOutput(runtime_context.favourite_colour, "get_favourite_colour")

get_least_favourite_colour(runtime_context) ==
    ToolOutput(runtime_context.least_favourite_colour, "get_least_favourite_colour")

demo_context_without_tools_agent ==
    [name |-> "demo_context_without_tools", tools |-> {},
     middleware |-> <<>>, checkpointer |-> FALSE]
demo_context_with_tools_agent ==
    [name |-> "demo_context_with_tools",
     tools |-> {"get_favourite_colour", "get_least_favourite_colour"},
     middleware |-> <<>>, checkpointer |-> FALSE]

\* __main__: demo_context_without_tools(), then demo_context_with_tools(); the
\* invocations in order, each with the context it passes
ContextScript ==
    <<[agent |-> demo_context_without_tools_agent, context |-> ColourContext(NoValue)],
      [agent |-> demo_context_with_tools_agent, context |-> ColourContext(NoValue)],
      [agent |-> demo_context_with_tools_agent,
       context |-> ColourContext([favourite_colour |-> "green"])]>>

ContextToolCalls(name) == {ToolCall(name, <<>>)}

ContextTool(call, runtime_context) ==
    CASE call.name = "get_favourite_colour" -> get_favourite_colour(runtime_context)
      [] call.name = "get_least_favourite_colour" -> get_least_favourite_colour(runtime_context)

InitContext ==
    /\ pc = "idle"
    /\ messages = <<>>
    /\ custom = NoValue
    /\ checkpoints = NoValue
    /\ agent = ContextScript[1].agent
    /\ thread = None
    /\ context = NoContext
    /\ offered = {}
    /\ calls = <<>>
    /\ invocation = 0
    /\ nextId = 1
    /\ modelCalls = 0
    /\ last = [op |-> "create_agent"]
    /\ log = <<>>

\* the script's next agent.invoke({"messages": [...]}, context=ColourContext(...))
ContextInvoke ==
    /\ pc \in {"idle", "done"}
    /\ invocation < Len(ContextScript)
    /\ invocation' = invocation + 1
    /\ agent' = ContextScript[invocation'].agent
    /\ context' = ContextScript[invocation'].context
    /\ messages' = add_messages(<<>>, <<HumanMessage("What is my favourite colour?")>>, 1)
    /\ nextId' = 2
    /\ offered' = {}
    /\ calls' = <<>>
    /\ modelCalls' = 0
    /\ pc' = "model"
    /\ last' = [op |-> "invoke"]
    /\ UNCHANGED <<custom, checkpoints, thread, log>>

\* the model node
ContextModelCall ==
    /\ pc = "model"
    /\ modelCalls < MaxModelCalls
    /\ modelCalls' = modelCalls + 1
    /\ offered' = agent.tools
    /\ \E response \in ModelResponses(UNION {ContextToolCalls(t) : t \in offered'}) :
          /\ calls' = response
          /\ messages' = add_messages(messages, <<AIMessage("answer", response)>>, nextId)
    /\ nextId' = nextId + 1
    /\ pc' = IF calls' = <<>> THEN "done" ELSE "tools"
    /\ last' = [op |-> "model"]
    /\ UNCHANGED <<custom, checkpoints, thread, context, invocation, agent, log>>

\* the tools node: each tool reads runtime.context, the context of this invocation
ContextTools ==
    /\ pc = "tools"
    /\ LET results == [i \in 1..Len(calls) |-> ContextTool(calls[i], context)]
       IN  /\ last' = [op |-> "tools", calls |-> calls, results |-> results]
           /\ messages' = add_messages(messages, ToolMessages(results), nextId)
           /\ nextId' = nextId + Len(ToolMessages(results))
    /\ calls' = <<>>
    /\ pc' = "model"
    /\ UNCHANGED <<custom, checkpoints, thread, context, offered, invocation, modelCalls,
                   agent, log>>

NextContext == ContextInvoke \/ ContextModelCall \/ ContextTools

SpecContext == InitContext /\ [][NextContext]_vars

\* what the i-th call of the last tools step returned
Returned(i) == last.results[i].messages[1].content

\* C11: get_favourite_colour / get_least_favourite_colour return the fields of the
\* ColourContext passed to the running invocation: "blue"/"yellow" under the default
\* context (whatever an earlier invocation was given), "green"/"yellow" when only
\* favourite_colour="green" is overridden (whatever the invocation before was given);
\* and no step but the next invoke changes the context.
C11_ContextPerInvocation ==
    /\ [](last.op = "tools" =>
            \A i \in 1..Len(last.calls) :
                /\ last.calls[i].name = "get_favourite_colour" =>
                      /\ Returned(i) = ContextScript[invocation].context.favourite_colour
                      /\ Returned(i) = IF invocation = 3 THEN "green" ELSE "blue"
                /\ last.calls[i].name = "get_least_favourite_colour" =>
                      /\ Returned(i) = ContextScript[invocation].context.least_favourite_colour
                      /\ Returned(i) = "yellow")
    /\ [][invocation' = invocation => context' = context]_vars
    /\ [](invocation > 0 => context = ContextScript[invocation].context)

\* after an invocation under the default context, both tools have run in the
\* invocation that overrides favourite_colour, returning "green" and "yellow"
C11_Witness ==
    /\ invocation = 3
    /\ last.op = "tools"
    /\ Len(last.calls) = 2
    /\ last.calls[1].name = "get_favourite_colour" /\ Returned(1) = "green"
    /\ last.calls[2].name = "get_least_favourite_colour" /\ Returned(2) = "yellow"

----------------------------------------------------------------------------
(* module3/dynamic_prompts.py *)

LanguageContext(user_language) == [user_language |-> user_language]
DefaultLanguageContext == LanguageContext("English")

\* the languages of the script, the default, and values near the default
Languages == {"English", "Irish", "Spanish", "French", "english", "ENGLISH", "English ",
              "Englis", "", "en"}

\* a comparison that ignores case would take "english" for the default
user_language_prompt_ignoring_case(runtime_context) ==
    LET user_language == runtime_context.user_language
        base_prompt == "You are a helpful assistant."
    IN  IF user_language \notin {"English", "english", "ENGLISH"}
        THEN base_prompt \o " only respond in " \o user_language \o "."
        ELSE base_prompt

\* a Python function that falls off its end returns None
user_language_prompt(runtime_context) ==
    LET user_language == runtime_context.user_language
        base_prompt == "You are a helpful assistant."
    IN  IF user_language # "English"
        THEN base_prompt \o " only respond in " \o user_language \o "."
        ELSE IF user_language = "English"
             THEN base_prompt
             ELSE None

prompt_agent ==
    [name |-> "dynamic_prompts", tools |-> {}, middleware |-> <<"user_language_prompt">>,
     checkpointer |-> FALSE]

InitPrompts ==
    /\ pc = "idle"
    /\ messages = <<>>
    /\ custom = NoValue
    /\ checkpoints = NoValue
    /\ agent = prompt_agent
    /\ thread = None
    /\ context = NoContext
    /\ offered = {}
    /\ calls = <<>>
    /\ invocation = 0
    /\ nextId = 1
    /\ modelCalls = 0
    /\ \E l \in Languages :
          last = [op |-> "arguments", user_language |-> l, result |-> None]
    /\ log = <<>>

\* a direct call of the function on a request whose context holds the language
PromptsCall ==
    /\ last.op = "arguments"
    /\ last' = [last EXCEPT !.op = "call",
                            !.result = user_language_prompt(LanguageContext(last.user_language))]
    /\ UNCHANGED <<pc, messages, custom, checkpoints, thread, context, offered, calls,
                   invocation, nextId, modelCalls, agent, log>>

\* agent.invoke(..., context=LanguageContext(user_language=l)), or with the default
\* LanguageContext(); the prompt depends on the context alone, the messages are left out
PromptsInvoke ==
    /\ pc \in {"idle", "done"}
    /\ invocation < MaxInvocations
    /\ invocation' = invocation + 1
    /\ context' \in {LanguageContext(l) : l \in Languages} \cup {DefaultLanguageContext}
    /\ modelCalls' = 0
    /\ pc' = "model"
    /\ UNCHANGED <<messages, custom, checkpoints, thread, offered, calls, nextId, agent,
                   last, log>>

\* the model node: the middleware sets the system prompt of the request; the agent
\* has no tools, so the answer ends the run
PromptsModelCall ==
    /\ pc = "model"
    /\ last' = [op |-> "model", user_language |-> context.user_language,
                result |-> user_language_prompt(context)]
    /\ modelCalls' = modelCalls + 1
    /\ pc' = "done"
    /\ UNCHANGED <<messages, custom, checkpoints, thread, context, offered, calls,
                   invocation, nextId, agent, log>>

NextPrompts == PromptsCall \/ PromptsInvoke \/ PromptsModelCall

SpecPrompts == InitPrompts /\ [][NextPrompts]_vars

\* C12: user_language_prompt always returns a prompt, never None: "You are a helpful
\* assistant." exactly when user_language is "English", and "You are a helpful
\* assistant. only respond in <language>." for every other value of user_language.
C12_PromptByLanguage ==
    last.op \in {"call", "model"} =>
        /\ last.result # None
        /\ last.result = "You are a helpful assistant." <=> last.user_language = "English"
        /\ last.user_language # "English" =>
              last.result = "You are a helpful assistant. only respond in "
                                \o last.user_language \o "."

\* the middleware has set the prompt for "english", which is not the default
C12_Witness ==
    /\ last.op = "model"
    /\ last.user_language = "english"
    /\ last.result = "You are a helpful assistant. only respond in english."

----------------------------------------------------------------------------
(* The tools that wrap an external call: query_playlist_db of                *)
(* module2/wedding_planner.py, sql_query of module3/dynamic_tools.py and     *)
(* github_file of module2/resources/mcp_server.py                            *)

\* how a Python call ends: it returns a value or raises an Exception with a message
Return(value) == [raised |-> FALSE, value |-> value]
Raise(message) == [raised |-> TRUE, value |-> message]

\* what db.run(query) may do
DatabaseOutcomes ==
    {Return(v) : v \in {"[(275,)]", ""}}
        \cup {Raise(m) : m \in {"no such table: Artists", "database is locked", ""}}
\* what requests.get(url) may do; a response with an error status is still a response
HttpOutcomes ==
    {Return(v) : v \in {"# LangChain MCP Adapters", "404: Not Found", ""}}
        \cup {Raise(m) : m \in {"Connection refused", "Read timed out", ""}}
Queries == {"SELECT COUNT(*) FROM Artist", "SELECT * FROM Artists", ""}

\* without the try the exception of db.run leaves the tool
query_playlist_db_uncaught(query, outcome) == outcome

query_playlist_db(query, outcome) ==
    IF outcome.raised
    THEN Return("Error querying database: " \o outcome.value)
    ELSE Return(outcome.value)

github_file(outcome) ==
    IF outcome.raised
    THEN Return("Error: " \o outcome.value)
    ELSE Return(outcome.value)

InitErrors ==
    /\ pc = "idle"
    /\ messages = <<>>
    /\ custom = NoValue
    /\ checkpoints = NoValue
    /\ agent = [name |-> "tools"]
    /\ thread = None
    /\ context = NoContext
    /\ offered = {}
    /\ calls = <<>>
    /\ invocation = 0
    /\ nextId = 1
    /\ modelCalls = 0
    /\ last = [op |-> "import"]
    /\ log = <<>>

\* a call query_playlist_db(query); invocation counts the tool calls made
ErrorsQueryPlaylistDb ==
    /\ invocation < MaxInvocations
    /\ invocation' = invocation + 1
    /\ \E query \in Queries, outcome \in DatabaseOutcomes :
          last' = [op |-> "query_playlist_db", query |-> query, outcome |-> outcome,
                   result |-> query_playlist_db(query, outcome)]
    /\ UNCHANGED <<pc, messages, custom, checkpoints, thread, context, offered, calls,
                   nextId, modelCalls, agent, log>>

\* a call sql_query(query)
ErrorsSqlQuery ==
    /\ invocation < MaxInvocations
    /\ invocation' = invocation + 1
    /\ \E query \in Queries, outcome \in DatabaseOutcomes :
          last' = [op |-> "sql_query", query |-> query, outcome |-> outcome,
                   result |-> Return(sql_query(query, outcome).messages[1].content)]
    /\ UNCHANGED <<pc, messages, custom, checkpoints, thread, context, offered, calls,
                   nextId, modelCalls, agent, log>>

\* a read of the resource github_file()
ErrorsGithubFile ==
    /\ invocation < MaxInvocations
    /\ invocation' = invocation + 1
    /\ \E outcome \in HttpOutcomes :
          last' = [op |-> "github_file", outcome |-> outcome, result |-> github_file(outcome)]
    /\ UNCHANGED <<pc, messages, custom, checkpoints, thread, context, offered, calls,
                   nextId, modelCalls, agent, log>>

NextErrors == ErrorsQueryPlaylistDb \/ ErrorsSqlQuery \/ ErrorsGithubFile

SpecErrors == InitErrors /\ [][NextErrors]_vars

\* the prefix each tool puts before the message of the exception
ErrorPrefix(op) ==
    IF op = "query_playlist_db" THEN "Error querying database: " ELSE "Error: "

\* C13: query_playlist_db, sql_query and github_file never raise what the wrapped
\* call raises: each returns the call's result when it returns, and the string
\* "Error querying database: <e>" (query_playlist_db) or "Error: <e>" (sql_query,
\* github_file) when it raises an exception e.
C13_ErrorsReturned ==
    last.op \in {"query_playlist_db", "sql_query", "github_file"} =>
        /\ ~last.result.raised
        /\ ~last.outcome.raised => last.result.value = last.outcome.value
        /\ last.outcome.raised =>
              last.result.value = ErrorPrefix(last.op) \o last.outcome.value

\* db.run raised inside query_playlist_db, which returned the error string
C13_Witness ==
    /\ last.op = "query_playlist_db"
    /\ last.outcome = Raise("database is locked")
    /\ last.result = Return("Error querying database: database is locked")

----------------------------------------------------------------------------
(* module3/email_agent.py, run_example *)

\* runtime.context of an invocation agent.invoke(input, config, context=context): the
\* context argument; what config["configurable"] holds is not read for it
RuntimeContext(config, context_argument) == context_argument

\* run_example: the custom context and the config that carries it
EmailDemoContext == EmailContext("user@example.com", "secure_password")
EmailDemoConfig ==
    [configurable |-> [thread_id |-> "email_demo", context |-> EmailDemoContext]]

\* the three requests of run_example, in order
EmailDemoScript ==
    <<"Check my inbox",
      "Authenticate with user@example.com and password secure_password",
      "Check my inbox now">>

InitEmailDemo ==
    /\ pc = "idle"
    /\ messages = <<>>
    /\ custom = NoValue
    /\ checkpoints = NoValue
    /\ thread = None
    /\ context = NoContext
    /\ offered = {}
    /\ calls = <<>>
    /\ invocation = 0
    /\ nextId = 1
    /\ modelCalls = 0
    /\ agent = create_email_agent(FALSE)
    /\ last = [op |-> "create_email_agent"]
    /\ log = <<>>

\* agent.invoke({"messages": [HumanMessage(...)]}, config=config): invoke is given no
\* context argument, and the agent has no checkpointer to start from; log keeps the
\* tool calls of the invocation before
EmailDemoInvoke ==
    /\ pc \in {"idle", "done"}
    /\ invocation < Len(EmailDemoScript)
    /\ invocation' = invocation + 1
    /\ thread' = EmailDemoConfig.configurable.thread_id
    /\ context' = RuntimeContext(EmailDemoConfig, NoContext)
    /\ LET start == StartState(agent, checkpoints, thread')
       IN  /\ messages' = add_messages(start.messages,
                                       <<HumanMessage(EmailDemoScript[invocation'])>>, 1)
           /\ custom' = start.custom
    /\ nextId' = Len(messages') + 1
    /\ offered' = {}
    /\ calls' = <<>>
    /\ modelCalls' = 0
    /\ pc' = "model"
    /\ last' = [op |-> "invoke"]
    /\ log' = SelectSeq(log, LAMBDA e : e.invocation = invocation)
    /\ UNCHANGED <<checkpoints, agent>>

\* the tools node, as EmailTools, keeping the log
EmailDemoTools ==
    /\ pc = "tools"
    /\ LET results == [i \in 1..Len(calls) |-> EmailTool(calls[i], context)]
       IN  /\ last' = [op |-> "tools", calls |-> calls, results |-> results]
           /\ IF InvalidUpdate(results)
              THEN /\ pc' = "error"
                   /\ UNCHANGED <<messages, custom, nextId, log>>
              ELSE /\ pc' = "model"
                   /\ custom' = Merge(custom, StateUpdate(results))
                   /\ messages' = add_messages(messages, ToolMessages(results), nextId)
                   /\ nextId' = nextId + Len(ToolMessages(results))
                   /\ log' = log \o LogEntries(invocation, calls, results)
    /\ calls' = <<>>
    /\ UNCHANGED <<checkpoints, thread, context, offered, invocation, modelCalls, agent>>

NextEmailDemo == EmailDemoInvoke \/ EmailModelCall \/ EmailDemoTools

SpecEmailDemo == InitEmailDemo /\ [][NextEmailDemo]_vars

\* the model did in invocation n what Example 2 asks for: it called authenticate
\* with user@example.com and secure_password
AuthenticatedIn(n) ==
    \E j \in 1..Len(log) :
        /\ log[j].invocation = n
        /\ log[j].name = "authenticate"
        /\ log[j].args = <<"user@example.com", "secure_password">>

\* C14: once invocation 2 of run_example has authenticated (with the pair Example 2
\* names), every model call of invocation 3 starts from authenticated = True and is
\* offered check_inbox and send_email.
C14_InboxAfterAuthentication ==
    [][(invocation = 3 /\ modelCalls' = modelCalls + 1 /\ AuthenticatedIn(2)) =>
          /\ Get(custom, "authenticated", FALSE) = TRUE
          /\ offered' = {"check_inbox", "send_email"}]_vars

\* C15: in run_example, authenticate compares with the custom EmailContext, so a
\* call authenticate("user@example.com", "secure_password") sets authenticated to True.
C15_CustomCredentials ==
    last.op = "tools" =>
        \A i \in 1..Len(last.calls) :
            last.calls[i] = ToolCall("authenticate", <<"user@example.com", "secure_password">>)
                => /\ context = EmailDemoContext
                   /\ last.results[i].update = [authenticated |-> TRUE]

----------------------------------------------------------------------------
(* module3/hitl.py, the three resumes *)

\* C16: when each of the three resumes (approve, reject, edit) is issued, the run on
\* thread "1" is paused by an interrupt for a send_email call, which the decision
\* applies to.
C16_ResumesArePending ==
    [][(invocation >= 1 /\ invocation' = invocation + 1) =>
          /\ pc = "interrupted"
          /\ Saved(checkpoints, thread).next = "interrupted"
          /\ Calls(calls, "send_email")]_vars

----------------------------------------------------------------------------
(* module2/mcp.py *)

DEFAULT_THREAD_ID == "1"
ThreadIds == {DEFAULT_THREAD_ID, "2"}

\* run_agent: create_agent(model=model, tools=tools, system_prompt=system_prompt),
\* built anew by each call and given no checkpointer
run_agent_agent ==
    [name |-> "run_agent", tools |-> {"search_web"}, middleware |-> <<>>,
     checkpointer |-> FALSE]

\* the tool of resources/mcp_server.py
search_web(query) == ToolOutput("results", "search_web")

\* two calls of run_agent, one after the other: the user messages
McpMessages ==
    <<"Tell me about the langchain-mcp-adapters library", "What did I just ask about?">>

McpToolCalls(name) == {ToolCall("search_web", <<"langchain-mcp-adapters">>)}

\* whether the sequence s starts with the sequence p
StartsWith(s, p) == Len(p) <= Len(s) /\ SubSeq(s, 1, Len(p)) = p

InitMcp ==
    /\ pc = "idle"
    /\ messages = <<>>
    /\ custom = NoValue
    /\ checkpoints = NoValue
    /\ agent = run_agent_agent
    /\ thread = None
    /\ context = NoContext
    /\ offered = {}
    /\ calls = <<>>
    /\ invocation = 0
    /\ nextId = 1
    /\ modelCalls = 0
    /\ last = [op |-> "main"]
    /\ log = <<>>

\* run_agent(tools, system_prompt, user_message, thread_id=t) up to its ainvoke: a
\* new agent, and the state the invocation starts from
McpRunAgent ==
    /\ pc \in {"idle", "done"}
    /\ invocation < Len(McpMessages)
    /\ invocation' = invocation + 1
    /\ agent' = run_agent_agent
    /\ \E t \in ThreadIds : thread' = t
    /\ LET start == StartState(agent', checkpoints, thread')
       IN  /\ messages' = add_messages(start.messages,
                                       <<HumanMessage(McpMessages[invocation'])>>,
                                       Len(start.messages) + 1)
           /\ custom' = start.custom
    /\ nextId' = Len(messages') + 1
    /\ checkpoints' = Checkpoint(agent', checkpoints, thread', messages', custom', <<>>, "model")
    /\ offered' = {}
    /\ calls' = <<>>
    /\ modelCalls' = 0
    /\ pc' = "model"
    /\ last' = [op |-> "run_agent", thread_id |-> thread']
    /\ UNCHANGED <<context, log>>

\* the model node; a final answer ends the invocation and run_agent returns the
\* response, which the log keeps with its thread_id
McpModelCall ==
    /\ pc = "model"
    /\ modelCalls < MaxModelCalls
    /\ modelCalls' = modelCalls + 1
    /\ offered' = agent.tools
    /\ \E response \in ModelResponses(UNION {McpToolCalls(t) : t \in offered'}) :
          /\ calls' = response
          /\ messages' = add_messages(messages, <<AIMessage("answer", response)>>, nextId)
    /\ nextId' = nextId + 1
    /\ pc' = IF calls' = <<>> THEN "done" ELSE "tools"
    /\ checkpoints' = Checkpoint(agent, checkpoints, thread, messages', custom, calls', pc')
    /\ last' = [op |-> "model"]
    /\ log' = IF pc' = "done"
              THEN Append(log, [thread_id |-> thread, messages |-> messages'])
              ELSE log
    /\ UNCHANGED <<custom, thread, context, invocation, agent>>

\* the tools node
McpTools ==
    /\ pc = "tools"
    /\ LET results == [i \in 1..Len(calls) |-> search_web(calls[i].args[1])]
       IN  /\ last' = [op |-> "tools", calls |-> calls, results |-> results]
           /\ messages' = add_messages(messages, ToolMessages(results), nextId)
           /\ nextId' = nextId + Len(ToolMessages(results))
    /\ calls' = <<>>
    /\ pc' = "model"
    /\ checkpoints' = Checkpoint(agent, checkpoints, thread, messages', custom, calls', pc')
    /\ UNCHANGED <<custom, thread, context, offered, invocation, modelCalls, agent, log>>

NextMcp == McpRunAgent \/ McpModelCall \/ McpTools

SpecMcp == InitMcp /\ [][NextMcp]_vars

\* C17: two run_agent calls with the same thread_id share one conversation: the
\* response of the second starts with the messages of the first's response, followed
\* by the second's own question and answer.
C17_ThreadSharesConversation ==
    \A i, j \in 1..Len(log) :
        (i < j /\ log[i].thread_id = log[j].thread_id) =>
            /\ StartsWith(log[j].messages, log[i].messages)
            /\ Len(log[j].messages) >= Len(log[i].messages) + 2

----------------------------------------------------------------------------
(* module2/state.py, threads and checkpointers *)

\* C19: checkpointed state is kept per thread and per checkpointer.  Within
\* demo_update_state, the invocation on thread "10" starts from its own input alone
\* (its question, favourite_colour "green"), whatever thread "1" has saved, and its
\* steps leave what is saved for thread "1" as it was, so nothing of thread "10"
\* shows on thread "1"; the first invocation of demo_read_state on thread "1" starts
\* from its question alone, without favourite_colour, whatever demo_update_state's
\* checkpointer holds for thread "1".
C19_ThreadsAndSaversIsolated ==
    /\ [][(invocation = 1 /\ invocation' = 2) =>
             /\ thread' = "10"
             /\ custom' = [favourite_colour |-> "green"]
             /\ Len(messages') = 1
             /\ messages'[1].content = StateScript[2].question]_vars
    /\ [][invocation' = 2 =>
             /\ DOMAIN checkpoints' = {"1", "10"}
             /\ Saved(checkpoints', "1") = Saved(checkpoints, "1")
             /\ Saved(checkpoints', "10").custom = custom'
             /\ Saved(checkpoints', "10").messages = messages']_vars
    /\ [][(invocation = 2 /\ invocation' = 3) =>
             /\ thread' = "1"
             /\ custom' = NoValue
             /\ Len(messages') = 1
             /\ messages'[1].content = StateScript[3].question
             /\ DOMAIN checkpoints' = {"1"}
             /\ Saved(checkpoints', "1").custom = NoValue]_vars

\* demo_read_state's first invocation on thread "1" has started without a colour,
\* demo_update_state having saved "blue" on thread "1" (and "green" on thread "10")
C19_Witness ==
    /\ invocation = 3
    /\ last.op = "invoke"
    /\ thread = "1"
    /\ "favourite_colour" \in DOMAIN last.before.custom
    /\ last.before.custom["favourite_colour"] = "blue"
    /\ custom = NoValue
    /\ Len(messages) = 1

====
